---------------------------- MODULE Spec2Model ----------------------------
(***************************************************************************)
(* Verification model of the procedural terrain generator                  *)
(* (generate_procedural_terrain_mesh) and of the turbine blade rotation    *)
(* (spawn_wind_turbine / rotate_blades).                                   *)
(*                                                                         *)
(* Coordinates, quaternion components and trigonometric values are exact   *)
(* numbers of the field Q(sqrt 2, sqrt 3): the sines and cosines of every  *)
(* multiple of pi/12 live there, so a rotation by a multiple of pi/6 is    *)
(* computed by the same formulas as the code, without rounding.  The       *)
(* rounding of f32 arithmetic is not represented.                          *)
(***************************************************************************)
EXTENDS Integers, Sequences, FiniteSets, TLC

VARIABLES
    \* ---- generate_procedural_terrain_mesh ----
    size,            \* argument size: usize
    scale,           \* argument scale: f64, in tenths
    overflow_checks, \* build profile: TRUE = arithmetic overflow panics
    pc,              \* position in the function body
    z, x,            \* loop counters of the loop being run
    vertices,        \* Vec of [x, height, z]
    indices,         \* Vec of u32
    mesh,            \* the returned Mesh (positions / normals), or NoMesh
    call,            \* number of the call being made (1 or 2)
    first,           \* what call 1 built: [vertices, indices, mesh]
    \* ---- turbine blades ----
    variant,         \* which program: "main" (main.rs) or "turbine" (turbine.rs)
    blades,          \* the Blade entities, in spawn order
    blade_axis,      \* per blade: blade_axis_position of its spawn call
    transform0,      \* per blade: its Transform as spawned
    born,            \* number of ticks that had run when the turbine was spawned
    hist,            \* the frame deltas of the rotate_blades ticks so far
    \* ---- one rotate_blades tick, blade by blade ----
    tick,            \* [open, dt, start, visited]: the query iteration of a tick
    \* ---- ellipsoid (potato) mesh generator ----
    longitude_segments,  \* argument
    latitude_segments,   \* argument
    e_pc,                \* position in the generator
    e_i, e_j,            \* latitude / longitude index of the loop being run
    e_vertices,          \* vertices emitted: [lat, lon, noise]
    e_indices,           \* triangle indices emitted
    \* ---- player_fov ----
    fov,                 \* perspective.fov of the PlayerEyes camera, in degrees
    wheel_events,        \* the MouseWheel events (their y) read in the last frame
    \* ---- drop_wind_turbine ----
    cooldown,            \* DropCooldown.timer: [elapsed, finished], in half seconds
    dropped,             \* number of turbines dropped so far
    ticked,              \* frame time ticked since startup or the last drop,
                         \* counted up to the timer's duration
    frame,               \* the last frame of drop_wind_turbine: [players, dt, key_t]
    \* ---- potato: process_mesh_load ----
    gltf,                \* what potato-1.glb holds: [meshes, primitives, scenes, trimesh_ok]
    loaded,              \* which assets the asset stores hold: [gltf, gltf_mesh, mesh]
    initalized,          \* Potato.initalized
    spawned,             \* number of scene-plus-collider entities spawned
    panicked,            \* process_mesh_load has panicked: the app is gone
    potato_frame,        \* the last frame of process_mesh_load: [parity, examined]
    \* ---- glft_info: print_gltf_info ----
    info_entities,       \* the handle of the GltfInfoComponent of each entity
    gltf_assets,         \* the handles whose Gltf is in Assets<Gltf>
    printed_handles,     \* PrintedHandles.handles
    reports,             \* per handle: how many times its loaded report was printed
    \* ---- player: update_gravity_system ----
    g_players,           \* number of Player entities
    g_translation,       \* Transform.translation of the player
    gravity,             \* the Gravity resource (gravity.0)
    g_fresh,             \* update_gravity_system has run since the player last moved
    \* ---- player: player_move ----
    m_players,           \* number of Player entities
    m_rotation,          \* Transform.rotation of the player
    m_keys,              \* the keys held in the last frame: [up, down, left, right, shift, jump]
    m_basis,             \* desired_velocity of the walk basis last fed
    m_jump,              \* the jump action was fed in the last frame
    m_dash               \* the dash action of the last frame: [fed, displacement]

terrainVars == <<size, scale, overflow_checks, pc, z, x, vertices, indices, mesh, call, first>>
bladeVars == <<variant, blades, blade_axis, transform0, born, hist>>
tickVars == <<tick>>
ellipsoidVars == <<longitude_segments, latitude_segments, e_pc, e_i, e_j, e_vertices, e_indices>>
vars == <<size, scale, overflow_checks, pc, z, x, vertices, indices, mesh, call, first,
          variant, blades, blade_axis, transform0, born, hist, tick,
          longitude_segments, latitude_segments, e_pc, e_i, e_j, e_vertices, e_indices,
          fov, wheel_events, cooldown, dropped, ticked, frame,
          gltf, loaded, initalized, spawned, panicked, potato_frame,
          info_entities, gltf_assets, printed_handles, reports,
          g_players, g_translation, gravity, g_fresh,
          m_players, m_rotation, m_keys, m_basis, m_jump, m_dash>>
fovVars == <<fov, wheel_events>>
dropVars == <<cooldown, dropped, ticked, frame>>
potatoVars == <<gltf, loaded, initalized, spawned, panicked, potato_frame>>
infoVars == <<info_entities, gltf_assets, printed_handles, reports>>
gravityVars == <<g_players, g_translation, gravity, g_fresh>>
moveVars == <<m_players, m_rotation, m_keys, m_basis, m_jump, m_dash>>

\* what the steps of one part leave alone
notTerrainVars == <<bladeVars, tickVars, ellipsoidVars, fovVars, dropVars, potatoVars, infoVars, gravityVars, moveVars>>
notBladeVars == <<terrainVars, tickVars, ellipsoidVars, fovVars, dropVars, potatoVars, infoVars, gravityVars, moveVars>>
notTickVars == <<terrainVars, ellipsoidVars, fovVars, dropVars, potatoVars, infoVars, gravityVars, moveVars>>
notEllipsoidVars == <<terrainVars, bladeVars, tickVars, fovVars, dropVars, potatoVars, infoVars, gravityVars, moveVars>>
notFovVars == <<terrainVars, bladeVars, tickVars, ellipsoidVars, dropVars, potatoVars, infoVars, gravityVars, moveVars>>
notDropVars == <<terrainVars, tickVars, ellipsoidVars, fovVars, potatoVars, infoVars, gravityVars, moveVars>>
notPotatoVars == <<terrainVars, bladeVars, tickVars, ellipsoidVars, fovVars, dropVars, infoVars, gravityVars, moveVars>>
notInfoVars == <<terrainVars, bladeVars, tickVars, ellipsoidVars, fovVars, dropVars, potatoVars, gravityVars, moveVars>>
notGravityVars == <<terrainVars, bladeVars, tickVars, ellipsoidVars, fovVars, dropVars, potatoVars, infoVars, moveVars>>
notMoveVars == <<terrainVars, bladeVars, tickVars, ellipsoidVars, fovVars, dropVars, potatoVars, infoVars, gravityVars>>

-----------------------------------------------------------------------------
(* Bounds of the model *)

\* largest terrain size explored
MaxSize == 4
\* index-loop iterations explored after the loop bound wrapped around
MaxWrapQuads == 3
\* number of rotate_blades ticks explored
MaxTicks == 4
\* largest frame delta, in half seconds
MaxDelta == 1
\* largest |rotation speed|, in units of pi/3 rad/s
MaxSpeed == 3

-----------------------------------------------------------------------------
(* Exact arithmetic in Q(sqrt 2, sqrt 3).                                  *)
(* <<a, b, c, e, d>> is (a + b*sqrt2 + c*sqrt3 + e*sqrt6) / d, with d > 0  *)
(* and gcd(a, b, c, e, d) = 1, so equal numbers are equal tuples.          *)

Abs(n) == IF n < 0 THEN -n ELSE n

RECURSIVE GCD(_, _)
GCD(m, n) == IF n = 0 THEN m ELSE GCD(n, m % n)

Norm(t) ==
    IF t[5] = 1
    THEN t
    ELSE LET g == GCD(GCD(GCD(Abs(t[1]), Abs(t[2])), GCD(Abs(t[3]), Abs(t[4]))), t[5])
         IN  <<t[1] \div g, t[2] \div g, t[3] \div g, t[4] \div g, t[5] \div g>>

Rat(n, d) == Norm(<<n, 0, 0, 0, d>>)
Num(n) == <<n, 0, 0, 0, 1>>
Zero == Num(0)
One == Num(1)
Two == Num(2)

Add(p, q) ==
    IF p[1] = 0 /\ p[2] = 0 /\ p[3] = 0 /\ p[4] = 0 THEN q
    ELSE IF q[1] = 0 /\ q[2] = 0 /\ q[3] = 0 /\ q[4] = 0 THEN p
    ELSE Norm(<<p[1] * q[5] + q[1] * p[5], p[2] * q[5] + q[2] * p[5],
                p[3] * q[5] + q[3] * p[5], p[4] * q[5] + q[4] * p[5], p[5] * q[5]>>)

Neg(p) == <<-p[1], -p[2], -p[3], -p[4], p[5]>>

Sub(p, q) == Add(p, Neg(q))

Mul(p, q) ==
    IF p[1] = 0 /\ p[2] = 0 /\ p[3] = 0 /\ p[4] = 0 THEN p
    ELSE IF q[1] = 0 /\ q[2] = 0 /\ q[3] = 0 /\ q[4] = 0 THEN q
    ELSE Norm(<<p[1] * q[1] + 2 * p[2] * q[2] + 3 * p[3] * q[3] + 6 * p[4] * q[4],
                p[1] * q[2] + p[2] * q[1] + 3 * (p[3] * q[4] + p[4] * q[3]),
                p[1] * q[3] + p[3] * q[1] + 2 * (p[2] * q[4] + p[4] * q[2]),
                p[1] * q[4] + p[4] * q[1] + p[2] * q[3] + p[3] * q[2],
                p[5] * q[5]>>)

-----------------------------------------------------------------------------
(* glam Vec3 and Quat over exact numbers *)

Vec3(vx, vy, vz) == [x |-> vx, y |-> vy, z |-> vz]

VAdd(u, v) == Vec3(Add(u.x, v.x), Add(u.y, v.y), Add(u.z, v.z))

VSub(u, v) == Vec3(Sub(u.x, v.x), Sub(u.y, v.y), Sub(u.z, v.z))

VScale(u, k) == Vec3(Mul(u.x, k), Mul(u.y, k), Mul(u.z, k))

Dot(u, v) == Add(Add(Mul(u.x, v.x), Mul(u.y, v.y)), Mul(u.z, v.z))

Cross(u, v) ==
    Vec3(Sub(Mul(u.y, v.z), Mul(u.z, v.y)),
         Sub(Mul(u.z, v.x), Mul(u.x, v.z)),
         Sub(Mul(u.x, v.y), Mul(u.y, v.x)))

\* squared Euclidean distance
DistSq(u, v) == Dot(VSub(u, v), VSub(u, v))

-----------------------------------------------------------------------------
(* generate_procedural_terrain_mesh(size, scale)                           *)

\* usize and u32 are modelled at a reduced width that keeps their ratio:
\* u32 has U32Bits bits and usize twice as many.
U32Bits == 12
UsizeModulus == 2 ^ (2 * U32Bits)
U32Modulus == 2 ^ U32Bits

\* scale is a number of tenths (the program calls with 0.2)
ScaleDen == 10
Scales == {2, 5, 10}

NoMesh == [positions |-> <<>>, normals |-> <<>>, built |-> FALSE]

\* the terrain generator is not running
NoTerrain ==
    /\ size = 0
    /\ scale = 2
    /\ overflow_checks = TRUE
    /\ pc = "idle"
    /\ z = 0
    /\ x = 0
    /\ vertices = <<>>
    /\ indices = <<>>
    /\ mesh = NoMesh
    /\ call = 1
    /\ first = [vertices |-> <<>>, indices |-> <<>>, mesh |-> NoMesh]

\* no blade exists
NoBlades ==
    /\ variant = "main"
    /\ blades = <<>>
    /\ blade_axis = <<>>
    /\ transform0 = <<>>
    /\ born = 0
    /\ hist = <<>>

\* no tick of rotate_blades is followed blade by blade
NoTick == [open |-> FALSE, dt |-> 0, start |-> <<>>, visited |-> <<>>]

\* the ellipsoid generator is not running
NoEllipsoid ==
    /\ longitude_segments = 1
    /\ latitude_segments = 1
    /\ e_pc = "idle"
    /\ e_i = 0
    /\ e_j = 0
    /\ e_vertices = <<>>
    /\ e_indices = <<>>

\* fov: 90.0_f32.to_radians() of the camera as spawned
FovSpawned == 90

\* the camera is as spawned and no wheel event has been read
NoWheel ==
    /\ fov = FovSpawned
    /\ wheel_events = <<>>

\* Timer::from_seconds(1.0, TimerMode::Once): nothing elapsed, not finished
TimerNew == [elapsed |-> 0, finished |-> FALSE]

NoFrame == [players |-> 0, dt |-> 0, key_t |-> FALSE]

\* drop_wind_turbine has not run
NoDrop ==
    /\ cooldown = TimerNew
    /\ dropped = 0
    /\ ticked = 0
    /\ frame = NoFrame

NothingLoaded == [gltf |-> FALSE, gltf_mesh |-> FALSE, mesh |-> FALSE]

\* the PotatoPlugin is not part of the App
NoPotato ==
    /\ gltf = [meshes |-> 1, primitives |-> 1, scenes |-> 1, trimesh_ok |-> TRUE]
    /\ loaded = NothingLoaded
    /\ initalized = FALSE
    /\ spawned = 0
    /\ panicked = FALSE
    /\ potato_frame = [parity |-> 0, examined |-> FALSE]

\* the GltfInfoPlugin is not part of the App
NoInfo ==
    /\ info_entities = <<>>
    /\ gltf_assets = {}
    /\ printed_handles = {}
    /\ reports = <<>>

\* Gravity::default(): Vec3(0.0, -9.81, 0.0)
GravityDefault == Vec3(Zero, Rat(-981, 100), Zero)

\* update_gravity_system is not part of the App
NoGravity ==
    /\ g_players = 0
    /\ g_translation = Vec3(Zero, Zero, Zero)
    /\ gravity = GravityDefault
    /\ g_fresh = FALSE

NoKeys ==
    [up |-> FALSE, down |-> FALSE, left |-> FALSE, right |-> FALSE,
     shift |-> FALSE, jump |-> FALSE]

\* no dash action is fed
NoDash == [fed |-> FALSE, displacement |-> Vec3(Zero, Zero, Zero)]

\* player_move has not run
NoMove ==
    /\ m_players = 0
    /\ m_rotation = [x |-> Zero, y |-> Zero, z |-> Zero, w |-> One]
    /\ m_keys = NoKeys
    /\ m_basis = Vec3(Zero, Zero, Zero)
    /\ m_jump = FALSE
    /\ m_dash = NoDash

\* the parts of the program other than those of G are at rest
IdleExcept(G) ==
    /\ IF "terrain" \in G THEN TRUE ELSE NoTerrain
    /\ IF "blades" \in G THEN TRUE ELSE NoBlades
    /\ IF "tick" \in G THEN TRUE ELSE tick = NoTick
    /\ IF "ellipsoid" \in G THEN TRUE ELSE NoEllipsoid
    /\ IF "fov" \in G THEN TRUE ELSE NoWheel
    /\ IF "drop" \in G THEN TRUE ELSE NoDrop
    /\ IF "potato" \in G THEN TRUE ELSE NoPotato
    /\ IF "info" \in G THEN TRUE ELSE NoInfo
    /\ IF "gravity" \in G THEN TRUE ELSE NoGravity
    /\ IF "move" \in G THEN TRUE ELSE NoMove

\* Perlin::new(42)
PerlinSeedFromCall == 41 + call
PerlinSeed == 42

\* perlin.get([px, pz]) as f32, the sample point given in tenths.  The noise
\* crate's gradient noise is a fixed function of the seed and the point that
\* vanishes on the integer lattice; its values off the lattice are stood for
\* by a fixed table of quarters in [-1, 1].
PerlinGet(seed, px, pz) ==
    IF px % ScaleDen = 0 /\ pz % ScaleDen = 0
    THEN Zero
    ELSE Rat(((seed + 3 * px + 7 * pz) % 9) - 4, 4)

\* vertices.push([x as f32, height, z as f32])
VertexSwapped(vx, height, vz) == Vec3(Num(vz), height, Num(vx))
Vertex(vx, height, vz) == Vec3(Num(vx), height, Num(vz))

\* x as u32
AsU32(i) == i % U32Modulus

\* size - 1 leaves the range of usize
SubtractionOverflowsBelowTwo(n) == n - 2 < 0
SubtractionOverflows(n) == n - 1 < 0

\* the bound of both index loops: size - 1 on usize (wrapping when the build
\* does not check overflow)
IndexLoopBoundNoMinus(n) == n
IndexLoopBound(n) == (n - 1) % UsizeModulus

\* let i = z * size + x
QuadBaseColumnMajor(qz, qx, n) == (qx * n + qz) % UsizeModulus
QuadBase(qz, qx, n) == (qz * n + qx) % UsizeModulus

\* the six pushes of one quad
QuadIndicesRepeatedCorner(i, n) ==
    <<AsU32(i), AsU32(i + 1), AsU32(i + n), AsU32(i + 1), AsU32(i + n + 1), AsU32(i + 1)>>
QuadIndicesFlipped(i, n) ==
    <<AsU32(i), AsU32(i + 1), AsU32(i + n), AsU32(i + 1), AsU32(i + n), AsU32(i + n + 1)>>
QuadIndicesOffDiagonal(i, n) ==
    <<AsU32(i), AsU32(i + 1), AsU32(i + n), AsU32(i + 1), AsU32(i + n + 2), AsU32(i + n)>>
QuadIndices(i, n) ==
    <<AsU32(i), AsU32(i + 1), AsU32(i + n), AsU32(i + 1), AsU32(i + n + 1), AsU32(i + n)>>

\* what stands for a position read past the end of the position buffer
OutOfBounds == [out_of_bounds |-> TRUE]

\* Mesh::with_duplicated_vertices: one position per index, the index buffer dropped
DuplicatedVertices(vs, is) ==
    [k \in 1..Len(is) |-> IF is[k] + 1 \in DOMAIN vs THEN vs[is[k] + 1] ELSE OutOfBounds]

\* Mesh::with_computed_flat_normals: the normal of the face (b - a) x (c - a),
\* given by its direction and squared length (the code divides by the length)
FaceNormalReversed(a, b, c) ==
    LET n == Cross(VSub(c, a), VSub(b, a))
    IN  [dir |-> n, len2 |-> Dot(n, n)]
FaceNormal(a, b, c) ==
    LET n == Cross(VSub(b, a), VSub(c, a))
    IN  [dir |-> n, len2 |-> Dot(n, n)]

FlatNormals(ps) ==
    [k \in 1..Len(ps) |->
        LET t == 3 * ((k - 1) \div 3)
        IN  IF \E j \in 1..3 : ps[t + j] = OutOfBounds
            THEN OutOfBounds
            ELSE FaceNormal(ps[t + 1], ps[t + 2], ps[t + 3])]

InitTerrain ==
    /\ size \in 0..MaxSize
    /\ scale \in Scales
    /\ overflow_checks \in BOOLEAN
    /\ pc = "vertices"
    /\ z = 0
    /\ x = 0
    /\ vertices = <<>>
    /\ indices = <<>>
    /\ mesh = NoMesh
    /\ call = 1
    /\ first = [vertices |-> <<>>, indices |-> <<>>, mesh |-> NoMesh]
    /\ IdleExcept({"terrain"})

\* one iteration of the body of the vertex loops (terrain.rs 14-19)
PushVertex ==
    /\ pc = "vertices"
    /\ z < size
    /\ LET height == PerlinGet(PerlinSeed, x * scale, z * scale)
       IN  vertices' = Append(vertices, Vertex(x, height, z))
    /\ IF x + 1 < size
       THEN x' = x + 1 /\ z' = z
       ELSE x' = 0 /\ z' = z + 1
    /\ UNCHANGED <<size, scale, overflow_checks, pc, indices, mesh, call, first>>
    /\ UNCHANGED notTerrainVars

\* the vertex loops are over; size - 1 is evaluated without overflow, or wraps
StartIndexLoop ==
    /\ pc = "vertices"
    /\ ~(z < size)
    /\ ~SubtractionOverflows(size) \/ ~overflow_checks
    /\ pc' = "indices"
    /\ z' = 0
    /\ x' = 0
    /\ UNCHANGED <<size, scale, overflow_checks, vertices, indices, mesh, call, first>>
    /\ UNCHANGED notTerrainVars

\* size - 1 with size = 0 in a build that checks overflow: the function panics
SubtractOverflow ==
    /\ pc = "vertices"
    /\ ~(z < size)
    /\ SubtractionOverflows(size) /\ overflow_checks
    /\ pc' = "panicked"
    /\ UNCHANGED <<size, scale, overflow_checks, z, x, vertices, indices, mesh, call, first>>
    /\ UNCHANGED notTerrainVars

\* one iteration of the body of the index loops (terrain.rs 22-36); after a
\* wrapped bound only MaxWrapQuads iterations are explored
PushQuad ==
    /\ pc = "indices"
    /\ z < IndexLoopBound(size)
    /\ ~SubtractionOverflows(size) \/ Len(indices) < 6 * MaxWrapQuads
    /\ LET i == QuadBase(z, x, size)
       IN  indices' = indices \o QuadIndices(i, size)
    /\ IF x + 1 < IndexLoopBound(size)
       THEN x' = x + 1 /\ z' = z
       ELSE x' = 0 /\ z' = z + 1
    /\ UNCHANGED <<size, scale, overflow_checks, pc, vertices, mesh, call, first>>
    /\ UNCHANGED notTerrainVars

\* the index loops are over: the Mesh is built and returned (terrain.rs 38-45)
ReturnMeshControl ==
    /\ pc = "indices"
    /\ ~(z < IndexLoopBound(size))
    /\ pc' = "done"

ReturnMesh ==
    /\ ReturnMeshControl
    /\ LET ps == DuplicatedVertices(vertices, indices)
       IN  mesh' = [positions |-> ps, normals |-> FlatNormals(ps), built |-> TRUE]
    /\ UNCHANGED <<size, scale, overflow_checks, z, x, vertices, indices, call, first>>
    /\ UNCHANGED notTerrainVars

\* the function is called a second time with the same arguments; its locals
\* are created anew (terrain.rs 9-11)
CallAgain ==
    /\ pc = "done"
    /\ call = 1
    /\ first' = [vertices |-> vertices, indices |-> indices, mesh |-> mesh]
    /\ call' = 2
    /\ pc' = "vertices"
    /\ z' = 0
    /\ x' = 0
    /\ vertices' = <<>>
    /\ indices' = <<>>
    /\ mesh' = NoMesh
    /\ UNCHANGED <<size, scale, overflow_checks>>
    /\ UNCHANGED notTerrainVars

NextTerrain ==
    \/ PushVertex
    \/ StartIndexLoop
    \/ SubtractOverflow
    \/ PushQuad
    \/ ReturnMesh
    \/ CallAgain

-----------------------------------------------------------------------------
(* Trigonometry of the multiples of pi/12 *)

Sqrt2Over2 == <<0, 1, 0, 0, 2>>
Sqrt3Over2 == <<0, 0, 1, 0, 2>>

\* cos(k * pi/12) for k in 0..6
CosFirstQuadrant(k) ==
    CASE k = 0 -> One
      [] k = 1 -> <<0, 1, 0, 1, 4>>
      [] k = 2 -> Sqrt3Over2
      [] k = 3 -> Sqrt2Over2
      [] k = 4 -> Rat(1, 2)
      [] k = 5 -> <<0, -1, 0, 1, 4>>
      [] k = 6 -> Zero

\* cos(k * pi/12), any integer k
Cos12(k) ==
    LET r == k % 24
        h == IF r > 12 THEN 24 - r ELSE r
    IN  IF h <= 6 THEN CosFirstQuadrant(h) ELSE Neg(CosFirstQuadrant(12 - h))

\* sin(k * pi/12), any integer k
Sin12(k) == Cos12(k - 6)

-----------------------------------------------------------------------------
(* glam Quat *)

Quat(qx, qy, qz, qw) == [x |-> qx, y |-> qy, z |-> qz, w |-> qw]

QuatIdentity == Quat(Zero, Zero, Zero, One)

\* Quat::from_rotation_z(angle), the angle a number of units of pi/6:
\* (0, 0, sin(angle / 2), cos(angle / 2))
QuatFromRotationZ(angle) == Quat(Zero, Zero, Sin12(angle), Cos12(angle))

\* Quat * Quat
QuatMul(p, q) ==
    Quat(Sub(Add(Add(Mul(p.w, q.x), Mul(p.x, q.w)), Mul(p.y, q.z)), Mul(p.z, q.y)),
         Add(Add(Sub(Mul(p.w, q.y), Mul(p.x, q.z)), Mul(p.y, q.w)), Mul(p.z, q.x)),
         Add(Sub(Add(Mul(p.w, q.z), Mul(p.x, q.y)), Mul(p.y, q.x)), Mul(p.z, q.w)),
         Sub(Sub(Sub(Mul(p.w, q.w), Mul(p.x, q.x)), Mul(p.y, q.y)), Mul(p.z, q.z)))

\* Quat * Vec3
QuatMulVec3(q, v) ==
    LET b == Vec3(q.x, q.y, q.z)
        b2 == Dot(b, b)
    IN  VAdd(VAdd(VScale(v, Sub(Mul(q.w, q.w), b2)),
                  VScale(b, Mul(Dot(v, b), Two))),
             VScale(Cross(b, v), Mul(q.w, Two)))

-----------------------------------------------------------------------------
(* spawn_wind_turbine and rotate_blades, of main.rs and of turbine.rs *)

Variants == {"main", "turbine"}

\* let blade_length = 4.0 / 40.0
BladeLength(v) == IF v = "main" THEN Num(4) ELSE Num(40)

\* position + Vec3::new(0.0, 8.5, 1.1) / (0.0, 85.0, 11.0)
BladeAxisOffset(v) ==
    IF v = "main" THEN Vec3(Zero, Rat(17, 2), Rat(11, 10)) ELSE Vec3(Zero, Num(85), Num(11))

\* the literal of rotate_blades: Vec3::new(0.0, 2.0, 0.0) / (0.0, 20.0, 0.0)
PivotLocalOffsetOfMain(v) == Vec3(Zero, Num(2), Zero)
PivotLocalOffset(v) ==
    IF v = "main" THEN Vec3(Zero, Num(2), Zero) ELSE Vec3(Zero, Num(20), Zero)

Origin == Vec3(Zero, Zero, Zero)

\* positions a turbine is spawned at: those of setup_wind_turbines, and the
\* one that puts the hub at the origin
Positions(v) ==
    {Origin, Vec3(Num(3), Zero, Num(10)), VSub(Origin, BladeAxisOffset(v))}

\* rotation speeds, in units of pi/3 rad/s
Speeds == (-MaxSpeed)..MaxSpeed

\* frame deltas (time.delta_seconds()), in half seconds
Deltas == 0..MaxDelta

\* (i as f32) * (2.0 * PI / 3.0), in units of pi/6
BladeAngleQuarterTurn(i) == 3 * i
BladeAngle(i) == 4 * i

\* the blade i (0, 1, 2) of a turbine whose hub is at axis
BladeTransform(v, axis, i) ==
    LET angle == BladeAngle(i)
        blade_offset == Vec3(Zero, Mul(BladeLength(v), Rat(1, 2)), Zero)
        rotated_offset == QuatMulVec3(QuatFromRotationZ(angle), blade_offset)
    IN  [translation |-> VAdd(axis, rotated_offset),
         rotation |-> QuatFromRotationZ(angle)]

\* time.delta_seconds() * rotation_speed.0, in units of pi/6
DeltaAnglePlus(dt, speed) == dt + speed
DeltaAngle(dt, speed) == dt * speed

\* let pivot = transform.translation - transform.rotation * Vec3::new(0.0, 20.0, 0.0)
PivotStale(v, tr) == VSub(tr.translation, PivotLocalOffset(v))
Pivot(v, tr) == VSub(tr.translation, QuatMulVec3(tr.rotation, PivotLocalOffset(v)))

\* Transform::rotate_around(point, rotation): translate_around, then rotate
RotateAroundSum(tr, point, rotation) ==
    [translation |-> VAdd(point, QuatMulVec3(rotation, VSub(tr.translation, point))),
     rotation |-> Quat(Add(rotation.x, tr.rotation.x), Add(rotation.y, tr.rotation.y),
                       Add(rotation.z, tr.rotation.z), Add(rotation.w, tr.rotation.w))]
TranslateAround(tr, point, rotation) ==
    [translation |-> VAdd(point, QuatMulVec3(rotation, VSub(tr.translation, point))),
     rotation |-> tr.rotation]
RotateAround(tr, point, rotation) ==
    [translation |-> VAdd(point, QuatMulVec3(rotation, VSub(tr.translation, point))),
     rotation |-> QuatMul(rotation, tr.rotation)]

\* transform.rotate_around(pivot, delta_rotation)
RotateTransform(tr, pivot, delta_rotation) == RotateAround(tr, pivot, delta_rotation)

\* the body of the loop of rotate_blades for one blade
StepBlade(v, b, dt) ==
    LET delta_rotation == QuatFromRotationZ(DeltaAngle(dt, b.rotation_speed))
        pivot == Pivot(v, b.transform)
    IN  [b EXCEPT !.transform = RotateTransform(b.transform, pivot, delta_rotation)]

InitBlades ==
    /\ variant \in Variants
    /\ blades = <<>>
    /\ blade_axis = <<>>
    /\ transform0 = <<>>
    /\ born = 0
    /\ hist = <<>>
    /\ IdleExcept({"blades"})

\* spawn_wind_turbine(position, rotation_speed): three blades about the hub.
\* main.rs spawns at Startup only, turbine.rs from the Update system
\* drop_wind_turbine.  One turbine is followed: a step of rotate_blades reads
\* and writes the components of its own blade only.
SpawnWindTurbine ==
    /\ blades = <<>>
    /\ variant = "main" => hist = <<>>
    /\ \E position \in Positions(variant), rotation_speed \in Speeds :
         LET blade_axis_position == VAdd(position, BladeAxisOffset(variant))
             new == [i \in 1..3 |->
                       [transform |-> BladeTransform(variant, blade_axis_position, i - 1),
                        rotation_speed |-> rotation_speed]]
         IN  /\ blades' = blades \o new
             /\ blade_axis' = blade_axis \o [i \in 1..3 |-> blade_axis_position]
             /\ transform0' = transform0 \o [i \in 1..3 |-> new[i].transform]
    /\ born' = Len(hist)
    /\ UNCHANGED <<variant, hist>>
    /\ UNCHANGED notBladeVars

\* rotate_blades: one frame, every blade stepped with the frame's delta
RotateBlades ==
    /\ Len(hist) < MaxTicks
    /\ \E dt \in Deltas :
         /\ blades' = [i \in 1..Len(blades) |-> StepBlade(variant, blades[i], dt)]
         /\ hist' = Append(hist, dt)
    /\ UNCHANGED <<variant, blade_axis, transform0, born>>
    /\ UNCHANGED notBladeVars

NextBlades ==
    \/ SpawnWindTurbine
    \/ RotateBlades

-----------------------------------------------------------------------------
(* One tick of rotate_blades followed blade by blade: the query hands the    *)
(* blades to the loop body one at a time, in an order bevy does not fix.     *)

\* rotate_blades ticks followed blade by blade
MaxOrderTicks == 2

\* the loop body run for the blade i of bs: it holds that blade's Transform
\* and RotationSpeed only
StepAtAndNext(v, bs, i, dt) ==
    [j \in 1..Len(bs) |->
        IF j = i \/ j = (i % Len(bs)) + 1 THEN StepBlade(v, bs[j], dt) ELSE bs[j]]
StepAt(v, bs, i, dt) == [bs EXCEPT ![i] = StepBlade(v, bs[i], dt)]

\* the turbines of setup_wind_turbines / a dropped turbine exist; one is followed
InitBladeOrder ==
    /\ variant \in Variants
    /\ \E position \in Positions(variant), rotation_speed \in Speeds :
         LET blade_axis_position == VAdd(position, BladeAxisOffset(variant))
             new == [i \in 1..3 |->
                       [transform |-> BladeTransform(variant, blade_axis_position, i - 1),
                        rotation_speed |-> rotation_speed]]
         IN  /\ blades = new
             /\ blade_axis = [i \in 1..3 |-> blade_axis_position]
             /\ transform0 = [i \in 1..3 |-> new[i].transform]
    /\ born = 0
    /\ hist = <<>>
    /\ tick = NoTick
    /\ IdleExcept({"blades", "tick"})

\* the blades the loop has been run for in this tick
Visited == {tick.visited[k] : k \in DOMAIN tick.visited}

\* rotate_blades starts to run in a frame whose delta is dt
BeginTick ==
    /\ ~tick.open
    /\ Len(hist) < MaxOrderTicks
    /\ \E dt \in Deltas :
         tick' = [open |-> TRUE, dt |-> dt, start |-> blades, visited |-> <<>>]
    /\ UNCHANGED bladeVars
    /\ UNCHANGED notTickVars

\* one iteration of the loop of rotate_blades, for whichever blade the query
\* yields next; after the last one the system returns
VisitBlade ==
    /\ tick.open
    /\ \E i \in (1..Len(blades)) \ Visited :
         LET visited == Append(tick.visited, i)
             last == Len(visited) = Len(blades)
         IN  /\ blades' = StepAt(variant, blades, i, tick.dt)
             /\ tick' = [tick EXCEPT !.visited = visited, !.open = ~last]
             /\ hist' = IF last THEN Append(hist, tick.dt) ELSE hist
    /\ UNCHANGED <<variant, blade_axis, transform0, born>>
    /\ UNCHANGED notTickVars

NextBladeOrder ==
    \/ BeginTick
    \/ VisitBlade

-----------------------------------------------------------------------------
(* The ellipsoid (potato) mesh generator: a UV sphere of latitude_segments   *)
(* by longitude_segments cells, every vertex moved along its radius by a     *)
(* random perturbation damped to zero at the poles.  A vertex is kept as its *)
(* grid node and the perturbation drawn for it, not as a position.           *)

\* largest number of segments explored
MaxSegments == 2

\* the perturbation drawn for a vertex, in units of noise_factor
Draws == {-1, 1}

\* number of longitude indices j in [0, longitude_segments] (inclusive)
LongitudeCountExclusive(l) == l
LongitudeCount(l) == l + 1

\* number of latitude indices i in [0, latitude_segments] (inclusive)
LatitudeCount(m) == m + 1

\* pow(1 - |cos(theta)|, 0.5) is zero exactly at theta = 0 and theta = PI
AtPole(i, m) == i = 0 \/ i = m

\* the two triangles of the cell (i, j), in the row-major grid
\* LongitudeCount(l) wide
CellIndices(i, j, l) ==
    LET w == LongitudeCount(l)
        b == i * w + j
    IN  <<b, b + 1, b + w, b + 1, b + w + 1, b + w>>

InitEllipsoid ==
    /\ longitude_segments \in 1..MaxSegments
    /\ latitude_segments \in 1..MaxSegments
    /\ e_pc = "vertices"
    /\ e_i = 0
    /\ e_j = 0
    /\ e_vertices = <<>>
    /\ e_indices = <<>>
    /\ IdleExcept({"ellipsoid"})

\* one vertex of the latitude / longitude loops
EmitVertex ==
    /\ e_pc = "vertices"
    /\ e_i < LatitudeCount(latitude_segments)
    /\ \E r \in Draws :
         LET noise == IF AtPole(e_i, latitude_segments) THEN 0 ELSE r
         IN  e_vertices' = Append(e_vertices, [lat |-> e_i, lon |-> e_j, noise |-> noise])
    /\ IF e_j + 1 < LongitudeCount(longitude_segments)
       THEN e_j' = e_j + 1 /\ e_i' = e_i
       ELSE e_j' = 0 /\ e_i' = e_i + 1
    /\ UNCHANGED <<longitude_segments, latitude_segments, e_pc, e_indices>>
    /\ UNCHANGED notEllipsoidVars

\* the vertex loops are over: triangulation starts
StartTriangulation ==
    /\ e_pc = "vertices"
    /\ ~(e_i < LatitudeCount(latitude_segments))
    /\ e_pc' = "indices"
    /\ e_i' = 0
    /\ e_j' = 0
    /\ UNCHANGED <<longitude_segments, latitude_segments, e_vertices, e_indices>>
    /\ UNCHANGED notEllipsoidVars

\* the two triangles of one cell (i, j) of [0, latitude_segments) x
\* [0, longitude_segments)
EmitCell ==
    /\ e_pc = "indices"
    /\ e_i < latitude_segments
    /\ e_indices' = e_indices \o CellIndices(e_i, e_j, longitude_segments)
    /\ IF e_j + 1 < longitude_segments
       THEN e_j' = e_j + 1 /\ e_i' = e_i
       ELSE e_j' = 0 /\ e_i' = e_i + 1
    /\ UNCHANGED <<longitude_segments, latitude_segments, e_pc, e_vertices>>
    /\ UNCHANGED notEllipsoidVars

\* the triangulation is over: the buffer is returned
ReturnEllipsoid ==
    /\ e_pc = "indices"
    /\ ~(e_i < latitude_segments)
    /\ e_pc' = "done"
    /\ UNCHANGED <<longitude_segments, latitude_segments, e_i, e_j, e_vertices, e_indices>>
    /\ UNCHANGED notEllipsoidVars

NextEllipsoid ==
    \/ EmitVertex
    \/ StartTriangulation
    \/ EmitCell
    \/ ReturnEllipsoid

-----------------------------------------------------------------------------
(* player_fov: the mouse wheel zooms the PlayerEyes camera.  The field of    *)
(* view is kept in whole degrees.                                            *)

\* most MouseWheel events read in one frame
MaxWheelEvents == 2
\* largest |wheel.y|
MaxWheelY == 1

\* 1.0_f32.to_radians(), 20.0_f32.to_radians(), 160.0_f32.to_radians()
FovStep == 1
FovMin == 20
FovMax == 160

Max(a, b) == IF a >= b THEN a ELSE b
Min(a, b) == IF a <= b THEN a ELSE b

WheelYs == (-MaxWheelY)..MaxWheelY

\* the MouseWheel events a frame can hold
WheelReads == UNION {[1..n -> WheelYs] : n \in 0..MaxWheelEvents}

\* the body of the loop over mouse_wheel.read() for one event
WheelStepInverted(f, y) ==
    IF y > 0
    THEN Min(f + FovStep, FovMax)
    ELSE IF y < 0
         THEN Max(f - FovStep, FovMin)
         ELSE f
WheelStep(f, y) ==
    IF y > 0
    THEN Max(f - FovStep, FovMin)
    ELSE IF y < 0
         THEN Min(f + FovStep, FovMax)
         ELSE f

\* for wheel in mouse_wheel.read() { ... }
RECURSIVE WheelLoop(_, _)
WheelLoop(f, ys) ==
    IF ys = <<>> THEN f ELSE WheelLoop(WheelStep(f, Head(ys)), Tail(ys))

InitFov ==
    /\ fov = FovSpawned
    /\ wheel_events = <<>>
    /\ IdleExcept({"fov"})

\* player_fov run in one frame, on the events of that frame
PlayerFov ==
    /\ \E ys \in WheelReads :
         /\ wheel_events' = ys
         /\ fov' = WheelLoop(fov, ys)
    /\ UNCHANGED notFovVars

NextFov ==
    \/ PlayerFov

-----------------------------------------------------------------------------
(* drop_wind_turbine: key T drops a turbine next to the player, at most once *)
(* per run of the one-shot cooldown timer.  Time is in half seconds.         *)

\* turbines dropped in a run
MaxDrops == 2

\* Timer::from_seconds(1.0, ...): the duration, in half seconds
TimerDuration == 2

\* Timer::tick in TimerMode::Once: a finished timer stays as it is; otherwise
\* the delta is added, the timer finishes once elapsed >= duration and
\* elapsed is then set to the duration
TimerTick(t, dt) ==
    IF t.finished
    THEN t
    ELSE LET elapsed == t.elapsed + dt
         IN  IF elapsed >= TimerDuration
             THEN [elapsed |-> TimerDuration, finished |-> TRUE]
             ELSE [elapsed |-> elapsed, finished |-> FALSE]

\* Timer::reset
TimerReset(t) == [elapsed |-> 0, finished |-> FALSE]

\* keyboard.just_pressed(KeyCode::KeyT) && cooldown.timer.finished()
DropConditionKeyOnly(key_t, t) == key_t
DropCondition(key_t, t) == key_t /\ t.finished

\* number of Player entities the query can match
PlayerCounts == 0..2

\* transform.translation of the player
PlayerTranslations == {Origin, Vec3(Num(3), Zero, Num(10))}

\* Vec3 { x: 2.0, y: -2.0, z: 2.0 }
DropOffset == Vec3(Num(2), Num(-2), Num(2))

\* rng.gen_range(0.5..1.0): two of the speeds that can be drawn
DropSpeeds == {1, 2}

\* the three blades spawn_wind_turbine(position, rotation_speed) spawns
TurbineBlades(v, position, rotation_speed) ==
    LET blade_axis_position == VAdd(position, BladeAxisOffset(v))
    IN  [i \in 1..3 |->
           [transform |-> BladeTransform(v, blade_axis_position, i - 1),
            rotation_speed |-> rotation_speed]]

InitDrop ==
    /\ variant = "turbine"
    /\ blades = <<>>
    /\ blade_axis = <<>>
    /\ transform0 = <<>>
    /\ born = 0
    /\ hist = <<>>
    /\ cooldown = TimerNew
    /\ dropped = 0
    /\ ticked = 0
    /\ frame = NoFrame
    /\ IdleExcept({"blades", "drop"})

\* drop_wind_turbine run in one frame
DropWindTurbine ==
    \E players \in PlayerCounts, dt \in Deltas, key_t \in BOOLEAN :
        /\ frame' = [players |-> players, dt |-> dt, key_t |-> key_t]
        /\ IF players # 1
           THEN \* query.get_single_mut() fails: return
                UNCHANGED <<cooldown, dropped, ticked, bladeVars>>
           ELSE LET t == TimerTick(cooldown, dt)
                    sofar == Min(ticked + dt, TimerDuration)
                IN  IF DropCondition(key_t, t)
                    THEN /\ dropped < MaxDrops
                         /\ \E translation \in PlayerTranslations, random_float \in DropSpeeds :
                              LET position == VAdd(translation, DropOffset)
                                  new == TurbineBlades(variant, position, random_float)
                              IN  /\ blades' = blades \o new
                                  /\ blade_axis' = blade_axis \o
                                       [i \in 1..3 |-> VAdd(position, BladeAxisOffset(variant))]
                                  /\ transform0' = transform0 \o [i \in 1..3 |-> new[i].transform]
                         /\ cooldown' = TimerReset(t)
                         /\ dropped' = dropped + 1
                         /\ ticked' = 0
                         /\ UNCHANGED <<variant, born, hist>>
                    ELSE /\ cooldown' = t
                         /\ ticked' = sofar
                         /\ UNCHANGED <<dropped, bladeVars>>
        /\ UNCHANGED notDropVars

NextDrop ==
    \/ DropWindTurbine

-----------------------------------------------------------------------------
(* potato: setup asks the asset server for potato-1.glb and spawns one       *)
(* Potato; process_mesh_load waits, frame after frame, for the file's mesh   *)
(* and scene and then spawns the scene with a trimesh collider.              *)

\* most meshes, primitives of the first mesh, and scenes the file holds
MaxAssetCount == 2

\* what the file can hold; trimesh_ok: Collider::trimesh_from_mesh yields a
\* collider for the primitive's mesh (it yields None for a mesh without
\* positions or without an index buffer)
GltfFiles ==
    [meshes : 0..MaxAssetCount, primitives : 0..MaxAssetCount,
     scenes : 0..MaxAssetCount, trimesh_ok : BOOLEAN]

\* if potato.initalized { continue; }
SkippedNever(done) == FALSE
Skipped(done) == done

\* mesh.is_some(): one mesh, loaded, with one primitive whose mesh is loaded
MeshFound ==
    /\ gltf.meshes = 1
    /\ loaded.gltf_mesh
    /\ gltf.primitives = 1
    /\ loaded.mesh

\* scene_handle.is_some()
SceneFound == gltf.scenes = 1

\* setup has run: the load is asked for, the Potato is not initialized
InitPotato ==
    /\ gltf \in GltfFiles
    /\ loaded = NothingLoaded
    /\ initalized = FALSE
    /\ spawned = 0
    /\ panicked = FALSE
    /\ potato_frame = [parity |-> 0, examined |-> FALSE]
    /\ IdleExcept({"potato"})

\* the asset server puts the Gltf into Assets<Gltf>
LoadGltf ==
    /\ ~panicked
    /\ ~loaded.gltf
    /\ loaded' = [loaded EXCEPT !.gltf = TRUE]
    /\ UNCHANGED <<gltf, initalized, spawned, panicked, potato_frame>>
    /\ UNCHANGED notPotatoVars

\* the asset server puts the file's first GltfMesh into Assets<GltfMesh>
LoadGltfMesh ==
    /\ ~panicked
    /\ gltf.meshes >= 1
    /\ ~loaded.gltf_mesh
    /\ loaded' = [loaded EXCEPT !.gltf_mesh = TRUE]
    /\ UNCHANGED <<gltf, initalized, spawned, panicked, potato_frame>>
    /\ UNCHANGED notPotatoVars

\* the asset server puts the Mesh of the first primitive into Assets<Mesh>
LoadMesh ==
    /\ ~panicked
    /\ gltf.meshes >= 1
    /\ gltf.primitives >= 1
    /\ ~loaded.mesh
    /\ loaded' = [loaded EXCEPT !.mesh = TRUE]
    /\ UNCHANGED <<gltf, initalized, spawned, panicked, potato_frame>>
    /\ UNCHANGED notPotatoVars

\* process_mesh_load run in one frame, for the one Potato
ProcessMeshLoad ==
    /\ ~panicked
    /\ LET parity == 1 - potato_frame.parity
       IN  IF Skipped(initalized)
           THEN /\ potato_frame' = [parity |-> parity, examined |-> FALSE]
                /\ UNCHANGED <<initalized, spawned, panicked>>
           ELSE /\ potato_frame' = [parity |-> parity, examined |-> TRUE]
                /\ IF loaded.gltf /\ SceneFound /\ MeshFound
                   THEN IF gltf.trimesh_ok
                        THEN /\ spawned' = spawned + 1
                             /\ initalized' = TRUE
                             /\ UNCHANGED panicked
                        ELSE \* Collider::trimesh_from_mesh(..) is None: unwrap panics
                             /\ panicked' = TRUE
                             /\ UNCHANGED <<initalized, spawned>>
                   ELSE UNCHANGED <<initalized, spawned, panicked>>
    /\ UNCHANGED <<gltf, loaded>>
    /\ UNCHANGED notPotatoVars

NextPotato ==
    \/ LoadGltf
    \/ LoadGltfMesh
    \/ LoadMesh
    \/ ProcessMeshLoad

-----------------------------------------------------------------------------
(* glft_info: print_gltf_info prints a report of every glTF file once it is  *)
(* loaded, and remembers the handles it has reported in PrintedHandles.      *)

\* number of distinct glTF handles
MaxHandles == 3
\* most entities with a GltfInfoComponent
MaxInfoEntities == 3

Handles == 1..MaxHandles

\* if !printed_handles.handles.contains(handle)
AlreadyPrintedNever(printed, handle) == FALSE
AlreadyPrinted(printed, handle) == handle \in printed

\* the body of the loop of print_gltf_info for one entity; s is
\* [printed, reports]
ReportEntity(s, handle) ==
    IF AlreadyPrinted(s.printed, handle)
    THEN s
    ELSE IF handle \in gltf_assets
         THEN [printed |-> s.printed \cup {handle},
               reports |-> [s.reports EXCEPT ![handle] = @ + 1]]
         ELSE \* "still loading" is printed
              s

\* for (gltf_info_component, entity) in query.iter() { ... }
RECURSIVE ReportLoop(_, _)
ReportLoop(s, handles) ==
    IF handles = <<>> THEN s ELSE ReportLoop(ReportEntity(s, Head(handles)), Tail(handles))

\* the entities exist, nothing is loaded, PrintedHandles::default()
InitInfo ==
    /\ info_entities \in UNION {[1..n -> Handles] : n \in 1..MaxInfoEntities}
    /\ gltf_assets = {}
    /\ printed_handles = {}
    /\ reports = [h \in Handles |-> 0]
    /\ IdleExcept({"info"})

\* the asset server puts the Gltf of a handle into Assets<Gltf>
LoadGltfAsset ==
    /\ \E h \in Handles \ gltf_assets : gltf_assets' = gltf_assets \cup {h}
    /\ UNCHANGED <<info_entities, printed_handles, reports>>
    /\ UNCHANGED notInfoVars

\* print_gltf_info run in one frame
PrintGltfInfo ==
    /\ LET s == ReportLoop([printed |-> printed_handles, reports |-> reports], info_entities)
       IN  /\ printed_handles' = s.printed
           /\ reports' = s.reports
    /\ UNCHANGED <<info_entities, gltf_assets>>
    /\ UNCHANGED notInfoVars

NextInfo ==
    \/ LoadGltfAsset
    \/ PrintGltfInfo

-----------------------------------------------------------------------------
(* f32 values that are not numbers.  A finite value is an exact number; the  *)
(* two other values a computation of the program can meet are written with   *)
(* a zero denominator.  The sign of an infinity is not kept: the program      *)
(* only ever multiplies an infinity by zero.                                  *)

NaN == <<0, 0, 0, 0, 0>>
Inf == <<1, 0, 0, 0, 0>>

IsFinite(p) == p[5] # 0

IsFiniteVec(v) == IsFinite(v.x) /\ IsFinite(v.y) /\ IsFinite(v.z)

\* f32 multiplication: 0 * inf and anything with NaN are NaN
FMul(p, q) ==
    IF IsFinite(p) /\ IsFinite(q)
    THEN Mul(p, q)
    ELSE IF p = NaN \/ q = NaN \/ p = Zero \/ q = Zero THEN NaN ELSE Inf

\* Vec3 * f32
FScale(v, k) == Vec3(FMul(v.x, k), FMul(v.y, k), FMul(v.z, k))

\* the square roots that are numbers of the field: q = n/d is m*(k/d)^2 with
\* m one of 1, 2, 3, 6
RootParts(q) ==
    LET nd == q[1] * q[5]
    IN  {mk \in {1, 2, 3, 6} \X (0..nd) : mk[1] * mk[2] * mk[2] = nd}

HasRoot(q) == q[2] = 0 /\ q[3] = 0 /\ q[4] = 0 /\ q[1] >= 0 /\ RootParts(q) # {}

\* k * sqrt(m) / d
Surd(k, m, d) ==
    Norm(<<IF m = 1 THEN k ELSE 0, IF m = 2 THEN k ELSE 0,
           IF m = 3 THEN k ELSE 0, IF m = 6 THEN k ELSE 0, d>>)

\* Vec3::length_recip: 1.0 / sqrt(length_squared), infinite for the zero vector
LengthRecip(v) ==
    LET q == Dot(v, v)
        mk == CHOOSE mk \in RootParts(q) : TRUE
    IN  IF q = Zero
        THEN Inf
        ELSE \* 1 / (k*sqrt(m)/d) = d*sqrt(m) / (k*m)
             Surd(q[5], mk[1], mk[2] * mk[1])

\* Vec3::normalize: self * self.length_recip()
NormalizeOrZero(v) == IF Dot(v, v) = Zero THEN v ELSE FScale(v, LengthRecip(v))
Normalize(v) == FScale(v, LengthRecip(v))

-----------------------------------------------------------------------------
(* player: update_gravity_system points the gravity at the world origin.     *)

\* largest |coordinate| of the player explored
MaxCoord == 1

\* gravity_direction * 9.8
GravityMagnitude == Rat(49, 5)

\* where the player can be: the grid points whose distance to the origin is
\* a number of the field
PlayerGrid ==
    {p \in {Vec3(Num(cx), Num(cy), Num(cz)) :
              cx \in (-MaxCoord)..MaxCoord, cy \in (-MaxCoord)..MaxCoord,
              cz \in (-MaxCoord)..MaxCoord} :
        HasRoot(Dot(p, p))}

GravityPlayerCounts == 0..2

InitGravity ==
    /\ g_players \in GravityPlayerCounts
    /\ g_translation \in PlayerGrid
    /\ gravity = GravityDefault
    /\ g_fresh = FALSE
    /\ IdleExcept({"gravity"})

\* the physics moves the player by one unit along one axis
MovePlayer ==
    /\ \E p \in PlayerGrid :
         /\ DistSq(p, g_translation) = One
         /\ g_translation' = p
    /\ g_fresh' = FALSE
    /\ UNCHANGED <<g_players, gravity>>
    /\ UNCHANGED notGravityVars

\* update_gravity_system run in one frame
UpdateGravitySystem ==
    /\ IF g_players # 1
       THEN \* query.get_single() fails: return
            UNCHANGED <<gravity, g_fresh>>
       ELSE LET direction_to_center == VSub(Vec3(Zero, Zero, Zero), g_translation)
                gravity_direction == Normalize(direction_to_center)
            IN  /\ gravity' = FScale(gravity_direction, GravityMagnitude)
                /\ g_fresh' = TRUE
    /\ UNCHANGED <<g_players, g_translation>>
    /\ UNCHANGED notGravityVars

NextGravity ==
    \/ MovePlayer
    \/ UpdateGravitySystem

-----------------------------------------------------------------------------
(* player: player_move turns the held keys into the walk basis and the jump  *)
(* and dash actions of the character controller.                             *)

\* largest rotation of the player about its Z axis, in units of pi/6
MaxTurn == 2

PlayerRotations == {QuatFromRotationZ(a) : a \in 0..MaxTurn}

KeyStates == [up : BOOLEAN, down : BOOLEAN, left : BOOLEAN, right : BOOLEAN,
              shift : BOOLEAN, jump : BOOLEAN]

\* direction.normalize_or_zero() * 10.0 / direction.normalize() * 10.0
MoveSpeed == Num(10)

\* the direction the held keys ask for, in the player's local frame
InputDirection(rotation, keys) ==
    LET forward == QuatMulVec3(rotation, Vec3(Zero, Zero, One))
        right == QuatMulVec3(rotation, Vec3(One, Zero, Zero))
        d0 == Vec3(Zero, Zero, Zero)
        d1 == IF keys.up THEN VSub(d0, forward) ELSE d0
        d2 == IF keys.down THEN VAdd(d1, forward) ELSE d1
        d3 == IF keys.left THEN VSub(d2, right) ELSE d2
    IN  IF keys.right THEN VAdd(d3, right) ELSE d3

\* Vec3::clamp_length_max(1.0)
ClampLengthMax(v) ==
    LET length_sq == Dot(v, v)
    IN  IF length_sq[1] > length_sq[5] THEN FScale(v, LengthRecip(v)) ELSE v

\* displacement of the dash action
DashDisplacement(direction) == FScale(Normalize(direction), MoveSpeed)

InitMove ==
    /\ m_players \in 0..2
    /\ m_rotation \in PlayerRotations
    /\ m_keys = NoKeys
    /\ m_basis = Vec3(Zero, Zero, Zero)
    /\ m_jump = FALSE
    /\ m_dash = NoDash
    /\ IdleExcept({"move"})

\* player_move run in one frame
PlayerMove ==
    /\ \E keys \in KeyStates :
         /\ m_keys' = keys
         /\ IF m_players # 1
            THEN \* a get_single fails: return, nothing is fed
                 /\ m_jump' = FALSE
                 /\ m_dash' = NoDash
                 /\ UNCHANGED m_basis
            ELSE LET direction == ClampLengthMax(InputDirection(m_rotation, keys))
                 IN  /\ m_basis' = FScale(NormalizeOrZero(direction), MoveSpeed)
                     /\ m_jump' = keys.jump
                     /\ m_dash' = IF keys.shift
                                  THEN [fed |-> TRUE, displacement |-> DashDisplacement(direction)]
                                  ELSE NoDash
    /\ UNCHANGED <<m_players, m_rotation>>
    /\ UNCHANGED notMoveVars

NextMove ==
    \/ PlayerMove

-----------------------------------------------------------------------------
(* Specifications *)

\* the terrain generator called twice; no blade exists
SpecTerrain == InitTerrain /\ [][NextTerrain]_vars

\* turbines spawned and blades rotated; the terrain generator is not running
SpecBlades == InitBlades /\ [][NextBlades]_vars

\* the blades of one turbine stepped one at a time, in any order
SpecBladeOrder == InitBladeOrder /\ [][NextBladeOrder]_vars

\* the ellipsoid generator called once
SpecEllipsoid == InitEllipsoid /\ [][NextEllipsoid]_vars

\* player_fov run frame after frame
SpecFov == InitFov /\ [][NextFov]_vars

\* drop_wind_turbine run frame after frame
SpecDrop == InitDrop /\ [][NextDrop]_vars

\* the potato asset loading while process_mesh_load runs frame after frame
SpecPotato == InitPotato /\ [][NextPotato]_vars

\* process_mesh_load is an Update system: while the app runs, frames go on
SpecPotatoFair == InitPotato /\ [][NextPotato]_vars /\ WF_vars(ProcessMeshLoad)

\* glTF files loading while print_gltf_info runs frame after frame
SpecInfo == InitInfo /\ [][NextInfo]_vars

\* the player moving while update_gravity_system runs frame after frame
SpecGravity == InitGravity /\ [][NextGravity]_vars

\* player_move run frame after frame
SpecMove == InitMove /\ [][NextMove]_vars

Spec == SpecTerrain

-----------------------------------------------------------------------------
(* Properties of generate_procedural_terrain_mesh, under SpecTerrain *)

Sq(n) == n * n

\* the index loops have run to their end
IndexLoopOver == pc = "done"

\* the vertex loops have run to their end
VertexLoopOver == pc \in {"indices", "done"}

\* C1: for every size N >= 2 the index loop builds exactly 6*(N-1)^2 index
\* entries, that is 2*(N-1)^2 triangles, and the returned mesh holds that
\* many triangles.
C1_TriangleCount ==
    (IndexLoopOver /\ size >= 2) =>
        /\ Len(indices) = 6 * Sq(size - 1)
        /\ Len(indices) \div 3 = 2 * Sq(size - 1)
        /\ Len(mesh.positions) = 3 * (2 * Sq(size - 1))

C1_Witness == IndexLoopOver /\ size >= 3 /\ Len(indices) = 6 * Sq(size - 1)

\* C2: for every size >= 2, every index pushed so far is strictly less than
\* the number of vertices pushed, which is size * size.
C2_IndexBounds ==
    (VertexLoopOver /\ size >= 2) =>
        /\ Len(vertices) = size * size
        /\ \A k \in 1..Len(indices) : indices[k] < Len(vertices)

C2_Witness ==
    /\ IndexLoopOver /\ size >= 3
    /\ \E k \in 1..Len(indices) : indices[k] = Len(vertices) - 1

C9_QuadTriples ==
    (VertexLoopOver /\ size >= 2) =>
        /\ Len(indices) % 6 = 0
        /\ \A q \in 0..(Len(indices) \div 6 - 1) :
              LET qz == q \div (size - 1)
                  qx == q % (size - 1)
                  i == qz * size + qx
                  a == <<indices[6 * q + 1], indices[6 * q + 2], indices[6 * q + 3]>>
                  b == <<indices[6 * q + 4], indices[6 * q + 5], indices[6 * q + 6]>>
              IN  /\ qz < size - 1
                  /\ a = <<i, i + 1, i + size>>
                  /\ b = <<i + 1, i + size + 1, i + size>>
                  /\ {a[1], a[2], a[3]} \cap {b[1], b[2], b[3]} = {i + 1, i + size}
        /\ IndexLoopOver => Len(indices) \div 6 = Sq(size - 1)

C9_Witness ==
    /\ IndexLoopOver /\ size >= 3
    /\ SubSeq(indices, Len(indices) - 5, Len(indices)) =
         <<Sq(size) - size - 2, Sq(size) - size - 1, Sq(size) - 2,
           Sq(size) - size - 1, Sq(size) - 1, Sq(size) - 2>>

\* C10: the generator emits size*size vertices in row-major order: the vertex
\* at buffer position z*size + x is (x, noise(x*scale, z*scale), z), the noise
\* being that of seed 42.
C10_RowMajorVertices ==
    /\ VertexLoopOver => Len(vertices) = size * size
    /\ \A k \in 1..Len(vertices) :
          LET vz == (k - 1) \div size
              vx == (k - 1) % size
          IN  /\ vz < size
              /\ vertices[k].x = Num(vx)
              /\ vertices[k].z = Num(vz)
              /\ vertices[k].y = PerlinGet(42, vx * scale, vz * scale)

C10_Witness ==
    /\ IndexLoopOver /\ size >= 3
    /\ vertices[size + 2] = Vec3(One, PerlinGet(42, scale, scale), One)
    /\ vertices[size + 2].y # Zero
    /\ vertices[2] # vertices[size + 1]

-----------------------------------------------------------------------------
(* Properties of spawn_wind_turbine / rotate_blades, under SpecBlades *)

\* the frame deltas of the ticks the blades have been stepped by
SinceSpawn == SubSeq(hist, born + 1, Len(hist))

\* this step is a rotate_blades tick
IsTick == Len(hist') = Len(hist) + 1

\* the frame delta of the tick this step is
TickDelta == hist'[Len(hist')]

\* a 3D rotation by angle (units of pi/6) about the Z axis, as a matrix
RotZ(angle, v) ==
    LET c == Cos12(2 * angle)
        s == Sin12(2 * angle)
    IN  Vec3(Sub(Mul(c, v.x), Mul(s, v.y)), Add(Mul(s, v.x), Mul(c, v.y)), v.z)

UnitX == Vec3(One, Zero, Zero)
UnitY == Vec3(Zero, One, Zero)
UnitZ == Vec3(Zero, Zero, One)

\* two quaternions that turn every vector alike (q and -q do)
SameOrientation(p, q) ==
    \A e \in {UnitX, UnitY, UnitZ} : QuatMulVec3(p, e) = QuatMulVec3(q, e)

\* C4: a tick leaves the transform of every blade whose rotation speed is 0
\* unchanged, whatever the frame delta.
C4_ZeroSpeedIdentity ==
    [][IsTick =>
         \A i \in DOMAIN blades :
            blades[i].rotation_speed = 0 =>
               /\ blades'[i].transform.translation = blades[i].transform.translation
               /\ blades'[i].transform.rotation = blades[i].transform.rotation]_vars

C4_Witness ==
    /\ blades # <<>>
    /\ \A i \in DOMAIN blades : blades[i].rotation_speed = 0
    /\ Len(SinceSpawn) >= 2
    /\ SinceSpawn[Len(SinceSpawn)] > 0
    /\ \A i \in DOMAIN blades : blades[i].transform = transform0[i]

\* C5: after any number of ticks the squared distance between a blade's
\* translation and the pivot computed from its current transform is the one
\* it had when spawned.
C5_ArmLength ==
    \A i \in DOMAIN blades :
       DistSq(blades[i].transform.translation, Pivot(variant, blades[i].transform)) =
          DistSq(transform0[i].translation, Pivot(variant, transform0[i]))

C5_Witness ==
    /\ blades # <<>>
    /\ Len(SinceSpawn) >= 3
    /\ \A i \in DOMAIN blades :
          /\ blades[i].transform.translation # transform0[i].translation
          /\ DistSq(blades[i].transform.translation, Pivot(variant, blades[i].transform)) =
                Mul(PivotLocalOffset(variant).y, PivotLocalOffset(variant).y)

\* the case of C6: a blade spawned at (0, 2, 0) with the identity rotation,
\* pivot offset (0, 2, 0), speed pi rad/s, stepped by four ticks of 0.5 s
C6_Case(i) ==
    /\ i \in DOMAIN blades
    /\ PivotLocalOffset(variant) = Vec3(Zero, Num(2), Zero)
    /\ transform0[i] = [translation |-> Vec3(Zero, Num(2), Zero), rotation |-> QuatIdentity]
    /\ blades[i].rotation_speed = 3
    /\ SinceSpawn = <<1, 1, 1, 1>>

\* C6: in that case the translation is back at (0, 2, 0) and the blade is
\* back in its starting orientation.
C6_FullTurn ==
    \A i \in DOMAIN blades :
       C6_Case(i) =>
          /\ blades[i].transform.translation = transform0[i].translation
          /\ SameOrientation(blades[i].transform.rotation, transform0[i].rotation)

C6_Witness ==
    /\ C6_Case(1)
    /\ blades[1].transform.translation = Vec3(Zero, Num(2), Zero)
    /\ blades[1].transform.rotation = Quat(Zero, Zero, Zero, Neg(One))

\* C7: for every blade, at every tick, the pivot recomputed from the live
\* transform is the blade_axis_position of the spawn call.
C7_FixedHub ==
    \A i \in DOMAIN blades :
       VSub(blades[i].transform.translation,
            QuatMulVec3(blades[i].transform.rotation, PivotLocalOffset(variant))) = blade_axis[i]

C7_Witness ==
    /\ blades # <<>>
    /\ Len(SinceSpawn) >= 3
    /\ \A i \in DOMAIN blades :
          /\ blades[i].transform.translation # transform0[i].translation
          /\ ~SameOrientation(blades[i].transform.rotation, transform0[i].rotation)
          /\ Pivot(variant, blades[i].transform) = blade_axis[i]

\* C8: a tick of frame delta dt turns each blade by
\* delta_angle = rotation_speed * dt about Z around
\* pivot = old_translation - old_rotation * (0, blade_length / 2, 0):
\* new_translation = pivot + delta_rotation * (old_translation - pivot) and
\* new_rotation = delta_rotation * old_rotation.
C8_RotateAround ==
    [][IsTick =>
         \A i \in DOMAIN blades :
            LET old == blades[i].transform
                delta_angle == blades[i].rotation_speed * TickDelta
                half == Vec3(Zero, Mul(BladeLength(variant), Rat(1, 2)), Zero)
                pivot == VSub(old.translation, QuatMulVec3(old.rotation, half))
            IN  /\ blades'[i].transform.translation =
                      VAdd(pivot, RotZ(delta_angle, VSub(old.translation, pivot)))
                /\ blades'[i].transform.rotation =
                      QuatMul(QuatFromRotationZ(delta_angle), old.rotation)
                /\ blades'[i].rotation_speed = blades[i].rotation_speed]_vars

C8_Witness ==
    /\ blades # <<>>
    /\ Len(SinceSpawn) >= 2
    /\ \A k \in 1..Len(SinceSpawn) : SinceSpawn[k] > 0
    /\ blades[1].rotation_speed = -1
    /\ blades[1].transform.rotation = QuatFromRotationZ(-Len(SinceSpawn))
    /\ blades[1].transform.translation =
          VAdd(blade_axis[1], RotZ(-Len(SinceSpawn), VSub(transform0[1].translation, blade_axis[1])))

-----------------------------------------------------------------------------
(* Further properties of generate_procedural_terrain_mesh, under SpecTerrain *)

\* twice the signed area of the triangle (a, b, c) projected on the XZ plane
Area2XZ(a, b, c) ==
    Sub(Mul(Sub(b.x, a.x), Sub(c.z, a.z)), Mul(Sub(b.z, a.z), Sub(c.x, a.x)))

\* the sign of a rational number
SignRat(p) == IF p[1] > 0 THEN 1 ELSE IF p[1] < 0 THEN -1 ELSE 0

\* the sign of the XZ area of the t-th index triple (t from 0), in emission order
Winding(t) ==
    SignRat(Area2XZ(vertices[indices[3 * t + 1] + 1],
                    vertices[indices[3 * t + 2] + 1],
                    vertices[indices[3 * t + 3] + 1]))

\* C11: for size >= 2 the two triangles of every quad pushed have the same
\* nonzero XZ winding, the one of the first triangle emitted.
C11_SameWinding ==
    (VertexLoopOver /\ size >= 2) =>
        \A q \in 0..(Len(indices) \div 6 - 1) :
           /\ Winding(2 * q) = Winding(2 * q + 1)
           /\ Winding(2 * q) = Winding(0)
           /\ Winding(2 * q) # 0

C11_Witness ==
    /\ IndexLoopOver /\ size >= 3
    /\ Winding(0) = 1
    /\ Winding(2 * Sq(size - 1) - 1) = 1

\* C12: the mesh returned for size N >= 2 is not indexed and holds one position
\* per index entry, 3 * 2*(N-1)^2 in all: triangle k (from 0) is made of the
\* entries 3k+1..3k+3, copies of the vertices its index triple names; the
\* normals buffer has the same length and the three entries of a triangle carry
\* the normal of that face, (b - a) x (c - a).
C12_PerFaceVertices ==
    (IndexLoopOver /\ size >= 2) =>
        /\ mesh.built
        /\ DOMAIN mesh = {"positions", "normals", "built"}
        /\ Len(mesh.positions) = 3 * (2 * Sq(size - 1))
        /\ Len(mesh.normals) = Len(mesh.positions)
        /\ \A k \in 1..Len(mesh.positions) : mesh.positions[k] = vertices[indices[k] + 1]
        /\ \A t \in 0..(2 * Sq(size - 1) - 1) :
              LET a == mesh.positions[3 * t + 1]
                  b == mesh.positions[3 * t + 2]
                  c == mesh.positions[3 * t + 3]
                  n == Cross(VSub(b, a), VSub(c, a))
              IN  /\ mesh.normals[3 * t + 1] = mesh.normals[3 * t + 2]
                  /\ mesh.normals[3 * t + 2] = mesh.normals[3 * t + 3]
                  /\ mesh.normals[3 * t + 1].dir = n
                  /\ mesh.normals[3 * t + 1].len2 = Dot(n, n)
                  /\ mesh.normals[3 * t + 1].len2 # Zero

C12_Witness ==
    /\ IndexLoopOver /\ size >= 3 /\ scale = 2
    /\ Len(mesh.positions) = 6 * Sq(size - 1)
    /\ mesh.normals[1] # mesh.normals[4]
    /\ mesh.positions[2] = mesh.positions[4]

\* the function runs without interruption: a call that can take a step takes
\* it (ReturnMesh is enabled exactly when its control part is)
SpecTerrainFair ==
    /\ InitTerrain
    /\ [][NextTerrain]_vars
    /\ WF_vars(PushVertex)
    /\ WF_vars(StartIndexLoop)
    /\ WF_vars(SubtractOverflow)
    /\ WF_vars(PushQuad)
    /\ WF_pc(ReturnMeshControl)
    /\ WF_vars(CallAgain)

\* C13 as claimed: the function fails for size = 0 and for size = 1, and
\* completes without failure for every size >= 2.
C13_FailsExactlyBelowTwo ==
    /\ size < 2 => pc # "done"
    /\ size >= 2 => pc # "panicked"

\* C13, amended: the function fails only for size = 0, where size - 1
\* overflows (a panic in a build that checks overflow); for size = 1 and for
\* every size >= 2 it runs to its end without failure, and for size = 1 the
\* mesh it returns is empty.
C13_FailsOnlyOnZero ==
    /\ [](pc = "panicked" => size = 0 /\ overflow_checks)
    /\ []((size = 1 /\ pc = "done") => mesh.built /\ mesh.positions = <<>>)
    /\ size >= 1 => <>(pc = "done" /\ call = 2)

C13_Witness ==
    /\ size = 1 /\ pc = "done" /\ call = 2
    /\ Len(vertices) = 1 /\ indices = <<>>
    /\ mesh.built /\ mesh.positions = <<>>

\* C14 as claimed: called with size < 2 the generator does not fail, pushes
\* no index entry and runs to its end.
C14_NoTriangleBelowTwo ==
    size < 2 =>
        /\ pc # "panicked"
        /\ indices = <<>>

-----------------------------------------------------------------------------
(* Properties of rotate_blades followed blade by blade, under SpecBladeOrder *)

\* C15: steps on different blade transforms are independent: at every point
\* of a tick each blade already visited holds exactly its own pivot rotation
\* of its transform at the start of the tick and every other blade is
\* untouched, so that the transforms at the end of the tick are the same
\* whatever the order of the visits.
C15_IndependentOfOrder ==
    tick.start # <<>> =>
        \A i \in 1..Len(blades) :
            blades[i] = IF i \in Visited
                        THEN StepBlade(variant, tick.start[i], tick.dt)
                        ELSE tick.start[i]

\* a second tick has ended after visiting blade 3, then 1, then 2, and every
\* blade has moved
C15_Witness ==
    /\ ~tick.open
    /\ tick.visited = <<3, 1, 2>>
    /\ Len(hist) = 2
    /\ \A i \in 1..3 : blades[i].transform # tick.start[i].transform
    /\ blades[2].transform.rotation # blades[1].transform.rotation

-----------------------------------------------------------------------------
(* Properties of the ellipsoid mesh generator, under SpecEllipsoid *)

\* C16: called with longitude_segments = L >= 1 and latitude_segments =
\* M >= 1 the generator emits (L+1)*(M+1) grid vertices, one per grid node in
\* row-major order, and exactly 2*L*M triangles, whose indices all refer to
\* emitted vertices.
C16_EllipsoidCounts ==
    e_pc = "done" =>
        LET l == longitude_segments
            m == latitude_segments
        IN  /\ Len(e_vertices) = (l + 1) * (m + 1)
            /\ \A i \in 0..m, j \in 0..l :
                 LET v == e_vertices[i * (l + 1) + j + 1]
                 IN  v.lat = i /\ v.lon = j
            /\ Len(e_indices) = 3 * (2 * l * m)
            /\ \A k \in 1..Len(e_indices) : e_indices[k] < Len(e_vertices)

C16_Witness ==
    /\ e_pc = "done"
    /\ longitude_segments = 2
    /\ latitude_segments = 1
    /\ Len(e_vertices) = 6
    /\ Len(e_indices) = 12

-----------------------------------------------------------------------------
(* Properties of player_fov, under SpecFov *)

\* what the claim lets one wheel event do to a field of view f
ClaimedAfterEvent(f, y) ==
    IF y > 0
    THEN (IF f - 1 < 20 THEN 20 ELSE f - 1)
    ELSE IF y < 0
         THEN (IF f + 1 > 160 THEN 160 ELSE f + 1)
         ELSE f

RECURSIVE ClaimedAfterEvents(_, _)
ClaimedAfterEvents(f, ys) ==
    IF ys = <<>> THEN f ELSE ClaimedAfterEvents(ClaimedAfterEvent(f, Head(ys)), Tail(ys))

\* C17: starting from 90 degrees the field of view stays within [20, 160]
\* degrees after any sequence of wheel events; an event with y > 0 lowers it
\* by 1 degree (not below 20), y < 0 raises it by 1 degree (not above 160)
\* and y = 0 leaves it unchanged, the events of a frame taken in order.
C17_FovClamped ==
    /\ fov = 90
    /\ [](20 <= fov /\ fov <= 160)
    /\ [][fov' = ClaimedAfterEvents(fov, wheel_events')]_vars

\* the field of view is at its lower limit after two more events with y > 0
C17_Witness ==
    /\ fov = 20
    /\ wheel_events = <<1, 1>>

-----------------------------------------------------------------------------
(* Properties of drop_wind_turbine, under SpecDrop *)

\* the frame just run dropped a turbine
Drops == Len(blades') > Len(blades)

\* C18: a turbine is spawned only in a frame where key T was just pressed
\* and the cooldown timer has finished, that is when at least 1.0 second of
\* frame time has been ticked since startup or the last drop, and that frame
\* resets the timer; in a frame where the condition is false no turbine is
\* spawned and the timer is not reset.
C18_DropCooldown ==
    [][LET f == frame'
           ticked_now == ticked + f.dt
       IN  /\ Drops =>
                /\ f.key_t
                /\ f.players = 1
                /\ ticked_now >= 2
                /\ Len(blades') = Len(blades) + 3
                /\ dropped' = dropped + 1
                /\ cooldown' = [elapsed |-> 0, finished |-> FALSE]
           /\ ~(f.key_t /\ f.players = 1 /\ ticked_now >= 2) =>
                /\ blades' = blades
                /\ dropped' = dropped
                /\ cooldown'.elapsed >= cooldown.elapsed
                /\ cooldown.finished => cooldown'.finished
      ]_vars

\* a second turbine has just been dropped, the timer is reset
C18_Witness ==
    /\ dropped = 2
    /\ Len(blades) = 6
    /\ frame.key_t
    /\ cooldown = [elapsed |-> 0, finished |-> FALSE]
    /\ ticked = 0

-----------------------------------------------------------------------------
(* Properties of process_mesh_load, under SpecPotato / SpecPotatoFair *)

\* the step is a frame of process_mesh_load
IsPotatoFrame == potato_frame'.parity # potato_frame.parity

\* C19: the scene-plus-collider entity is spawned at most once: initalized
\* starts false, changes only from false to true and only in the frame of
\* the spawn, never returns to false, and an initialized Potato is skipped
\* in every later frame.
C19_SpawnedOnce ==
    /\ initalized = FALSE
    /\ [](spawned <= 1)
    /\ [][/\ initalized => initalized'
          /\ (initalized' # initalized) <=> (spawned' = spawned + 1)
          /\ spawned' # spawned => IsPotatoFrame /\ spawned' = spawned + 1
          /\ (initalized /\ IsPotatoFrame) =>
                /\ ~potato_frame'.examined
                /\ spawned' = spawned
      ]_vars

\* the Potato was initialized by a spawn and a later frame has skipped it
C19_Witness ==
    /\ initalized
    /\ spawned = 1
    /\ ~potato_frame.examined

\* the file is loaded with one mesh, whose one primitive's mesh is loaded,
\* and one scene
LoadedOneOfEach ==
    /\ loaded.gltf /\ loaded.gltf_mesh /\ loaded.mesh
    /\ gltf.meshes = 1 /\ gltf.primitives = 1 /\ gltf.scenes = 1

\* the loaded file has a number of meshes, primitives or scenes other than one
LoadedNotOne ==
    /\ loaded.gltf
    /\ gltf.meshes # 1 \/ gltf.primitives # 1 \/ gltf.scenes # 1

\* C20 as claimed: once the file is loaded with one mesh, one primitive whose
\* mesh is loaded and one scene, the Potato eventually becomes initialized;
\* while the loaded file has another number of them the Potato is never
\* initialized and every frame examines it again.
C20_EventuallyInitialized ==
    /\ LoadedOneOfEach ~> initalized
    /\ [](LoadedNotOne => ~initalized)
    /\ [][(LoadedNotOne /\ IsPotatoFrame) => potato_frame'.examined]_vars

-----------------------------------------------------------------------------
(* Properties of print_gltf_info, under SpecInfo *)

\* C21: the loaded-asset report is printed at most once per handle, also
\* when several entities carry the same handle: a handle enters
\* PrintedHandles only together with the report of its loaded asset, is
\* never removed, and a handle that is not loaded is never in the set.
C21_PrintedOnce ==
    /\ [](\A h \in DOMAIN reports : reports[h] <= 1)
    /\ [](printed_handles \subseteq gltf_assets)
    /\ [][/\ printed_handles \subseteq printed_handles'
          /\ \A h \in DOMAIN reports :
               /\ reports'[h] \in {reports[h], reports[h] + 1}
               /\ (reports'[h] = reports[h] + 1) <=>
                    (h \in printed_handles' /\ h \notin printed_handles)
      ]_vars

\* three entities carry the same handle; its report was printed once
C21_Witness ==
    /\ info_entities = <<2, 2, 2>>
    /\ printed_handles = {2}
    /\ reports[2] = 1
    /\ gltf_assets = {1, 2}

-----------------------------------------------------------------------------
(* Properties of update_gravity_system, under SpecGravity *)

\* a number of the form k*sqrt(m)/d with k < 0
IsNegative(p) == p[1] <= 0 /\ p[2] <= 0 /\ p[3] <= 0 /\ p[4] <= 0 /\ p # Zero

\* the gravity has magnitude 9.8 and, away from the origin, the direction
\* from the player to the origin
GravityTowardOrigin ==
    /\ IsFiniteVec(gravity)
    /\ Dot(gravity, gravity) = Rat(2401, 25)
    /\ g_translation # Vec3(Zero, Zero, Zero) =>
         /\ Cross(gravity, g_translation) = Vec3(Zero, Zero, Zero)
         /\ IsNegative(Dot(gravity, g_translation))

\* C22 as claimed: after update_gravity_system has run with exactly one
\* player the gravity points from the player toward the origin with
\* magnitude 9.8, for every position of the player, the origin included;
\* with no player or several the gravity is left unchanged.
C22_GravityTowardOrigin ==
    /\ []((g_players = 1 /\ g_fresh) => GravityTowardOrigin)
    /\ [][g_players # 1 => gravity' = gravity]_vars

-----------------------------------------------------------------------------
(* Properties of player_move, under SpecMove *)

\* C23 as claimed: whenever the dash action is fed its displacement is a
\* well-defined vector of length 10 along the input direction, for every
\* combination of held movement keys, none and opposing ones included.
C23_DashDisplacement ==
    m_dash.fed =>
        /\ IsFiniteVec(m_dash.displacement)
        /\ Dot(m_dash.displacement, m_dash.displacement) = Num(100)
        /\ LET direction == InputDirection(m_rotation, m_keys)
           IN  direction # Vec3(Zero, Zero, Zero) =>
                 /\ Cross(m_dash.displacement, direction) = Vec3(Zero, Zero, Zero)
                 /\ ~IsNegative(Dot(m_dash.displacement, direction))

-----------------------------------------------------------------------------
(* The three blades of a turbine, under SpecBlades *)

\* the vector from the hub of blade i to its translation
Arm(i) == VSub(blades[i].transform.translation, blade_axis[i])

\* the blade after i about the hub
NextBlade(i) == (i % 3) + 1

\* blade j is blade i turned by angle (units of pi/6) about the hub
TurnedBy(i, j, angle) ==
    /\ Arm(j) = RotZ(angle, Arm(i))
    /\ LET turned == QuatMul(QuatFromRotationZ(angle), blades[i].transform.rotation)
           q == blades[j].transform.rotation
       IN  \* q and -q are the same orientation
           \/ q = turned
           \/ q = Quat(Neg(turned.x), Neg(turned.y), Neg(turned.z), Neg(turned.w))

\* C24: the three blades of a turbine are spawned at the angles 0, 2*pi/3
\* and 4*pi/3 about the hub with the same rotation speed, and after any
\* number of ticks each blade is still the one before it turned by 2*pi/3
\* about the hub.
C24_BladeSeparation ==
    blades # <<>> =>
        /\ Len(blades) = 3
        /\ \A i \in 1..3 :
             /\ transform0[i].translation =
                  VAdd(blade_axis[i],
                       RotZ(4 * (i - 1), Vec3(Zero, Mul(BladeLength(variant), Rat(1, 2)), Zero)))
             /\ transform0[i].rotation = QuatFromRotationZ(4 * (i - 1))
             /\ blades[NextBlade(i)].rotation_speed = blades[i].rotation_speed
             /\ blade_axis[NextBlade(i)] = blade_axis[i]
             /\ Arm(i) # Vec3(Zero, Zero, Zero)
             /\ TurnedBy(i, NextBlade(i), 4)

\* the blades have been turned by three ticks away from where they were
\* spawned, by an angle that is not a multiple of 2*pi/3
C24_Witness ==
    /\ blades # <<>>
    /\ Len(SinceSpawn) >= 3
    /\ blades[1].rotation_speed = 1
    /\ \A i \in 1..3 : \A j \in 1..3 :
          blades[i].transform.translation # transform0[j].translation
    /\ TurnedBy(1, 2, 4) /\ TurnedBy(2, 3, 4) /\ TurnedBy(3, 1, 4)

-----------------------------------------------------------------------------
(* No degenerate triangle in the terrain, under SpecTerrain *)

\* the three indices of the t-th index triple (t from 0)
Triple(t) == <<indices[3 * t + 1], indices[3 * t + 2], indices[3 * t + 3]>>

\* C25: for every size >= 2 no triangle emitted is degenerate: its three
\* indices are pairwise distinct and the XZ projection of its vertices has
\* area 1/2 (twice the area is 1 or -1), so that every flat normal computed
\* for the returned mesh has a non-zero length; and every one of the
\* size * size vertices is named by at least one triangle.
C25_NoDegenerateTriangle ==
    /\ (VertexLoopOver /\ size >= 2) =>
          \A t \in 0..(Len(indices) \div 3 - 1) :
             LET tr == Triple(t)
             IN  /\ tr[1] # tr[2] /\ tr[2] # tr[3] /\ tr[1] # tr[3]
                 /\ Area2XZ(vertices[tr[1] + 1], vertices[tr[2] + 1], vertices[tr[3] + 1])
                       \in {Num(1), Num(-1)}
    /\ (IndexLoopOver /\ size >= 2) =>
          /\ Len(vertices) = size * size
          /\ \A k \in 1..Len(mesh.normals) : mesh.normals[k].len2 # Zero
          /\ \A v \in 0..(Len(vertices) - 1) : \E k \in 1..Len(indices) : indices[k] = v

\* a terrain with heights off the lattice has been returned; its corner
\* vertices are each named by a triangle
C25_Witness ==
    /\ IndexLoopOver /\ size >= 3 /\ scale = 5
    /\ \E k \in 1..Len(vertices) : vertices[k].y # Zero
    /\ \E k \in 1..Len(indices) : indices[k] = size - 1
    /\ \E k \in 1..Len(indices) : indices[k] = size * (size - 1)
    /\ \A k \in 1..Len(mesh.normals) : mesh.normals[k].len2 # Zero

=============================================================================
